---- MODULE Spec2Model ----
(***************************************************************************)
(* The schedule engine of app/models/scheduling.py: one ScheduledItem, its *)
(* lifecycle operations (execute, mark_completed, mark_failed, cancel,     *)
(* retry, update), the recurrence and backoff arithmetic, and the two      *)
(* publishable targets it drives.                                          *)
(*                                                                         *)
(* A datetime is the number of minutes since 2025-01-01T00:00; the         *)
(* calendar operators below convert between that number and a Gregorian    *)
(* date the way datetime does.  One operation reads the clock once.        *)
(***************************************************************************)
EXTENDS Integers, Sequences, FiniteSets, TLC

VARIABLES
    item,           \* the ScheduledItem
    now,            \* datetime.now()
    posts,          \* the blog and social posts: "missing", "draft" or "published"
    publish_calls,  \* number of publish() calls made on a target
    last_op,        \* the operation that produced this state
    result,         \* what that operation returned: "True", "False", "self" or "raised";
                    \* for get_due_items "due" (the item is in the list) or "empty"
    outcome,        \* what its publish attempt met: "none", "not_found", "raised" or "ok"
    runners,        \* the sessions of the schedule runners and the row each has loaded
    saved           \* whether the item has a row in scheduled_items

vars == <<item, now, posts, publish_calls, last_op, result, outcome, runners, saved>>

----------------------------------------------------------------------------
(* Bounds of the exploration *)

MaxDay == 1            \* the clock is read on days 0..MaxDay
MaxMaxRetries == 3     \* max_retries given at construction: 0..MaxMaxRetries
MaxMaxExecutions == 2  \* max_executions given at construction: None or 0..MaxMaxExecutions

\* the minute of the day at which the clock is read after creation
Mark == [minute |-> 10]

\* the clock readings: creation at 0, then once on each day
Clock == {0} \cup {d * 1440 + Mark.minute : d \in 0..MaxDay}

\* scheduled_time values given at construction
Anchors == {5}

\* scheduled_time values given to update
UpdateTimes == {20}

----------------------------------------------------------------------------
(* Python values *)

None == -1             \* None in a nullable datetime or integer column
NoId == "None"         \* None in a nullable foreign key column
NoMsg == "None"        \* None as the error argument / last_error

PENDING == "pending"
COMPLETED == "completed"
FAILED == "failed"
CANCELLED == "cancelled"
ScheduleStatus == {PENDING, COMPLETED, FAILED, CANCELLED}

ONCE == "once"
DAILY == "daily"
WEEKLY == "weekly"
MONTHLY == "monthly"
ScheduleFrequency == {ONCE, DAILY, WEEKLY, MONTHLY}

BlogIds == {"b1"}
SocialIds == {"s1"}
PostIds == BlogIds \cup SocialIds

----------------------------------------------------------------------------
(* datetime and timedelta arithmetic *)

MinutesPerDay == 1440

timedelta(days, minutes) == days * MinutesPerDay + minutes

\* (a - b).days: the whole days of a timedelta, rounded towards minus infinity
days_of(delta) == delta \div MinutesPerDay

IsLeap(y) == y % 4 = 0 /\ (y % 100 # 0 \/ y % 400 = 0)

\* the length of a month in the calendar datetime validates against
DaysInMonth(y, m) ==
    IF m = 2 THEN (IF IsLeap(y) THEN 29 ELSE 28)
    ELSE IF m \in {4, 6, 9, 11} THEN 30 ELSE 31

Epoch == [year |-> 2025, month |-> 1, day |-> 1]

RECURSIVE DaysBeforeYear(_)
DaysBeforeYear(y) ==
    IF y <= Epoch.year THEN 0
    ELSE DaysBeforeYear(y - 1) + (IF IsLeap(y - 1) THEN 366 ELSE 365)

RECURSIVE DaysBeforeMonth(_, _)
DaysBeforeMonth(y, m) ==
    IF m <= 1 THEN 0 ELSE DaysBeforeMonth(y, m - 1) + DaysInMonth(y, m - 1)

\* datetime(y, m, d, 0, 0) + minute-of-day, as minutes since Epoch
MakeDatetime(y, m, d, minute) ==
    (DaysBeforeYear(y) + DaysBeforeMonth(y, m) + (d - 1)) * MinutesPerDay + minute

RECURSIVE DateFrom(_, _, _)
DateFrom(y, m, n) ==
    IF n >= DaysInMonth(y, m)
    THEN (IF m = 12 THEN DateFrom(y + 1, 1, n - DaysInMonth(y, m))
                    ELSE DateFrom(y, m + 1, n - DaysInMonth(y, m)))
    ELSE [year |-> y, month |-> m, day |-> n + 1]

\* the year, month and day fields of a datetime
DateOf(t) == DateFrom(Epoch.year, 1, t \div MinutesPerDay)

MinuteOfDay(t) == t % MinutesPerDay

\* datetime.replace(year=, month=, day=) raises ValueError for a day the month lacks
ReplaceRaises(y, m, d) == d > DaysInMonth(y, m)

Replace(t, y, m, d) == MakeDatetime(y, m, d, MinuteOfDay(t))

RECURSIVE Pow(_, _)
Pow(b, e) == IF e = 0 THEN 1 ELSE b * Pow(b, e - 1)

----------------------------------------------------------------------------
(* ScheduledItem: construction *)

\* InitRaises that rejects only the call without any target
InitRaises_any_target(blog_post_id, social_post_id) ==
    blog_post_id = NoId /\ social_post_id = NoId

\* ScheduledItem.__init__ followed by the column defaults; raises ValueError
\* unless exactly one target reference is given
InitRaises(blog_post_id, social_post_id) ==
    \/ (blog_post_id = NoId /\ social_post_id = NoId)
    \/ (blog_post_id # NoId /\ social_post_id # NoId)

\* ScheduledItem without the assignment next_execution = scheduled_time
ScheduledItem_unscheduled(scheduled_time, blog_post_id, social_post_id, frequency, status, max_executions, max_retries) ==
    [ scheduled_time   |-> scheduled_time,
      blog_post_id     |-> blog_post_id,
      social_post_id   |-> social_post_id,
      next_execution   |-> None,
      frequency        |-> frequency,
      status           |-> status,
      max_executions   |-> max_executions,
      max_retries      |-> max_retries,
      errors           |-> << >>,
      last_executed_at |-> None,
      execution_count  |-> 0,
      last_error       |-> NoMsg,
      retry_count      |-> 0 ]

ScheduledItem(scheduled_time, blog_post_id, social_post_id, frequency, status, max_executions, max_retries) ==
    [ scheduled_time   |-> scheduled_time,
      blog_post_id     |-> blog_post_id,
      social_post_id   |-> social_post_id,
      next_execution   |-> scheduled_time,
      frequency        |-> frequency,
      status           |-> status,
      max_executions   |-> max_executions,
      max_retries      |-> max_retries,
      errors           |-> << >>,
      last_executed_at |-> None,
      execution_count  |-> 0,
      last_error       |-> NoMsg,
      retry_count      |-> 0 ]

\* SaveRaises that accepts a scheduled_time equal to now
SaveRaises_now_allowed(self, t) == self.scheduled_time < t

\* ScheduledItem.save: the creation-time check of scheduled_time
SaveRaises(self, t) == self.scheduled_time <= t

----------------------------------------------------------------------------
(* Recurrence: the next_execution computed by mark_completed *)

\* LastDay without the leap-year rule
LastDay_common_year(y, m) ==
    IF m = 2 THEN 28
    ELSE IF m \in {4, 6, 9, 11} THEN 30
    ELSE 31

\* the except-branch of the MONTHLY computation: the last day of the month
LastDay(y, m) ==
    IF m = 2 THEN (IF y % 4 = 0 /\ (y % 100 # 0 \/ y % 400 = 0) THEN 29 ELSE 28)
    ELSE IF m \in {4, 6, 9, 11} THEN 30
    ELSE 31

\* scheduled_time.replace(year, month), falling back to the last day of the month
MonthlyDate(scheduled_time, y, m) ==
    LET d == DateOf(scheduled_time).day
    IN  IF ReplaceRaises(y, m, d)
        THEN Replace(scheduled_time, y, m, LastDay(y, m))
        ELSE Replace(scheduled_time, y, m, d)

\* the while-loop that advances month by month until the date is after now
RECURSIVE FutureDate(_, _, _, _, _)
FutureDate(scheduled_time, next_year, next_month, additional_months, t) ==
    LET fm0         == next_month + additional_months
        future_year == next_year + ((fm0 - 1) \div 12)
        future_month == ((fm0 - 1) % 12) + 1
        future_date == MonthlyDate(scheduled_time, future_year, future_month)
    IN  IF future_date > t
        THEN future_date
        ELSE FutureDate(scheduled_time, next_year, next_month, additional_months + 1, t)

\* NextDaily whose catch-up stops at the elapsed whole days
NextDaily_behind(scheduled_time, execution_count, t) ==
    LET first == scheduled_time + timedelta(execution_count, 0)
        days_passed == days_of(t - scheduled_time)
    IN  IF first <= t THEN scheduled_time + timedelta(days_passed, 0) ELSE first

NextDaily(scheduled_time, execution_count, t) ==
    LET first == scheduled_time + timedelta(execution_count, 0)
        days_passed == days_of(t - scheduled_time) + 1
    IN  IF first <= t THEN scheduled_time + timedelta(days_passed, 0) ELSE first

\* NextWeekly whose catch-up counts days as weeks
NextWeekly_days(scheduled_time, execution_count, t) ==
    LET first == scheduled_time + timedelta(7 * execution_count, 0)
        weeks_passed == days_of(t - scheduled_time) + 1
    IN  IF first <= t THEN scheduled_time + timedelta(7 * weeks_passed, 0) ELSE first

NextWeekly(scheduled_time, execution_count, t) ==
    LET first == scheduled_time + timedelta(7 * execution_count, 0)
        weeks_passed == (days_of(t - scheduled_time) \div 7) + 1
    IN  IF first <= t THEN scheduled_time + timedelta(7 * weeks_passed, 0) ELSE first

NextMonthly(scheduled_time, execution_count, t) ==
    LET nm0        == DateOf(scheduled_time).month + execution_count
        next_year  == DateOf(scheduled_time).year + ((nm0 - 1) \div 12)
        next_month == ((nm0 - 1) % 12) + 1
        first      == MonthlyDate(scheduled_time, next_year, next_month)
    IN  IF first <= t
        THEN FutureDate(scheduled_time, next_year, next_month, 1, t)
        ELSE first

\* the recurring branch of mark_completed; execution_count is already incremented
NextOccurrence(self, t) ==
    CASE self.frequency = DAILY   -> NextDaily(self.scheduled_time, self.execution_count, t)
      [] self.frequency = WEEKLY  -> NextWeekly(self.scheduled_time, self.execution_count, t)
      [] self.frequency = MONTHLY -> NextMonthly(self.scheduled_time, self.execution_count, t)
      [] OTHER                    -> self.next_execution

----------------------------------------------------------------------------
(* ScheduledItem: lifecycle methods, as functions of the item and the clock *)

\* Recurs with the limit compared by <= : one occurrence too many
Recurs_inclusive(self) ==
    /\ self.frequency # ONCE
    /\ (self.max_executions = None \/ self.execution_count <= self.max_executions)

\* the test that sends mark_completed into its recurring branch
Recurs(self) ==
    /\ self.frequency # ONCE
    /\ (self.max_executions = None \/ self.execution_count < self.max_executions)

\* mark_completed that leaves the occurrence just executed as the next one
mark_completed_unadvanced(self, t) ==
    LET s1 == [self EXCEPT !.last_executed_at = t,
                           !.execution_count = self.execution_count + 1]
    IN  IF Recurs(s1)
        THEN [s1 EXCEPT !.status = PENDING]
        ELSE [s1 EXCEPT !.status = COMPLETED,
                        !.next_execution = None]

\* mark_completed that clears the failure state
mark_completed_resetting(self, t) ==
    LET s1 == [self EXCEPT !.last_executed_at = t,
                           !.execution_count = self.execution_count + 1,
                           !.retry_count = 0]
    IN  IF Recurs(s1)
        THEN [s1 EXCEPT !.next_execution = NextOccurrence(s1, t),
                        !.status = PENDING]
        ELSE [s1 EXCEPT !.status = COMPLETED,
                        !.next_execution = None]

\* mark_completed that does not count the execution
mark_completed_uncounted(self, t) ==
    LET s1 == [self EXCEPT !.last_executed_at = t]
    IN  IF Recurs(s1)
        THEN [s1 EXCEPT !.next_execution = NextOccurrence(s1, t),
                        !.status = PENDING]
        ELSE [s1 EXCEPT !.status = COMPLETED,
                        !.next_execution = None]

mark_completed(self, t) ==
    LET s1 == [self EXCEPT !.last_executed_at = t,
                           !.execution_count = self.execution_count + 1]
    IN  IF Recurs(s1)
        THEN [s1 EXCEPT !.next_execution = NextOccurrence(s1, t),
                        !.status = PENDING]
        ELSE [s1 EXCEPT !.status = COMPLETED,
                        !.next_execution = None]

\* backoff_minutes with the exponent not reduced by one
backoff_minutes_late(retry_count) == 5 * Pow(3, retry_count)

\* exponential backoff of mark_failed: 5min, 15min, 45min, ...
backoff_minutes(retry_count) == 5 * Pow(3, retry_count - 1)

\* error or "Execution failed"
ErrorMessage(error) == IF error = NoMsg THEN "Execution failed" ELSE error

\* RetryLater without the limit: a failed item is always tried again
RetryLater_unlimited(self) == TRUE

\* RetryLater with the limit compared by <= : one retry too many
RetryLater_inclusive(self) == self.retry_count <= self.max_retries

\* the test that lets mark_failed schedule another attempt
RetryLater(self) == self.retry_count < self.max_retries

\* schedule_metadata['errors'] as the commit of mark_failed stores it.  The
\* column is a MutableDict (MutableJSONDict of app/database.py): assigning the
\* 'errors' key marks the column changed, so the first entry is written; a
\* later append goes to the plain list under the key, marks nothing, is left
\* out of the UPDATE and is gone when the row is read again
stored_errors(errors, entry) ==
    IF errors = << >> THEN << entry >> ELSE errors

\* the fields are those of the row after the db.session.commit() that ends it
mark_failed(self, error, t) ==
    LET s1 == [self EXCEPT !.last_executed_at = t,
                           !.retry_count = self.retry_count + 1,
                           !.last_error = ErrorMessage(error),
                           !.errors = stored_errors(self.errors,
                                             [time |-> t, message |-> ErrorMessage(error)])]
    IN  IF RetryLater(s1)
        THEN [s1 EXCEPT !.next_execution = t + timedelta(0, backoff_minutes(s1.retry_count)),
                        !.status = PENDING]
        ELSE [s1 EXCEPT !.status = FAILED,
                        !.next_execution = None]

cancel(self) == [self EXCEPT !.status = CANCELLED, !.next_execution = None]

\* can_retry without the retry limit
can_retry_unlimited(self) ==
    /\ self.status # COMPLETED
    /\ self.status # CANCELLED

\* can_retry that accepts a CANCELLED item
can_retry_cancelled(self) ==
    /\ self.status # COMPLETED
    /\ self.retry_count < self.max_retries

can_retry(self) ==
    /\ self.status # COMPLETED
    /\ self.status # CANCELLED
    /\ self.retry_count < self.max_retries

\* retry_backoff_minutes with the exponent one too high
retry_backoff_minutes_next(retry_count) == 5 * Pow(2, retry_count + 1)

\* backoff of retry(): 5 * 2 ** retry_count
retry_backoff_minutes(retry_count) == 5 * Pow(2, retry_count)

\* retry that starts the retries over
retry_resetting(self, t) ==
    [self EXCEPT !.status = PENDING,
                 !.retry_count = 0,
                 !.next_execution = t + timedelta(0, retry_backoff_minutes(self.retry_count))]

\* retry() when can_retry holds; otherwise it raises ValueError
retry(self, t) ==
    [self EXCEPT !.status = PENDING,
                 !.next_execution = t + timedelta(0, retry_backoff_minutes(self.retry_count))]

\* execution_time = self.next_execution or self.scheduled_time
execution_time(self) ==
    IF self.next_execution # None THEN self.next_execution ELSE self.scheduled_time

\* ExecuteSkips that also skips at the due time itself
ExecuteSkips_at_due_time(self, t) == self.status # PENDING \/ t <= execution_time(self)

\* ExecuteSkips without the due-time test
ExecuteSkips_status_only(self, t) == self.status # PENDING

\* the early return of execute: not pending or not due yet
ExecuteSkips(self, t) == self.status # PENDING \/ t < execution_time(self)

BlogNotFound(id) == "Blog post with ID " \o id \o " not found"
SocialNotFound(id) == "Social post with ID " \o id \o " not found"
PublishError == "publish failed"

\* BlogPost.publish / SocialPost.publish: marks the post published
publish(ps, id) == [ps EXCEPT ![id] = "published"]

\* ExecuteOn without the except clause: a publish() that raises reaches the caller
ExecuteOn_propagates(self, t, ps, id, not_found, publish_ok) ==
    IF ps[id] = "missing"
    THEN [item |-> mark_failed(self, not_found, t), posts |-> ps, calls |-> 0,
          ret |-> "False", outcome |-> "not_found"]
    ELSE IF ~publish_ok
    THEN [item |-> self, posts |-> ps, calls |-> 1,
          ret |-> "raised", outcome |-> "raised"]
    ELSE [item |-> mark_completed(self, t), posts |-> publish(ps, id), calls |-> 1,
          ret |-> "True", outcome |-> "ok"]

\* the try-block of execute on one target; publish_ok = FALSE is a publish() that raises
ExecuteOn(self, t, ps, id, not_found, publish_ok) ==
    IF ps[id] = "missing"
    THEN [item |-> mark_failed(self, not_found, t), posts |-> ps, calls |-> 0,
          ret |-> "False", outcome |-> "not_found"]
    ELSE IF ~publish_ok
    THEN [item |-> mark_failed(self, PublishError, t), posts |-> ps, calls |-> 1,
          ret |-> "False", outcome |-> "raised"]
    ELSE [item |-> mark_completed(self, t), posts |-> publish(ps, id), calls |-> 1,
          ret |-> "True", outcome |-> "ok"]

\* execute(): the new item, the new posts, the number of publish() calls, the
\* return value and what the publish attempt met
execute(self, t, ps, publish_ok) ==
    IF ExecuteSkips(self, t)
    THEN [item |-> self, posts |-> ps, calls |-> 0, ret |-> "False", outcome |-> "none"]
    ELSE IF self.blog_post_id # NoId
    THEN ExecuteOn(self, t, ps, self.blog_post_id, BlogNotFound(self.blog_post_id), publish_ok)
    ELSE IF self.social_post_id # NoId
    THEN ExecuteOn(self, t, ps, self.social_post_id, SocialNotFound(self.social_post_id), publish_ok)
    ELSE [item |-> mark_completed(self, t), posts |-> ps, calls |-> 0, ret |-> "True",
          outcome |-> "none"]

\* get_due_items without the status filter
get_due_items_any_status(rows, t) ==
    {row \in rows :
        \/ (row.next_execution # None /\ row.next_execution <= t)
        \/ (row.next_execution = None /\ row.scheduled_time <= t)}

\* get_due_items over the stored rows: a comparison with a NULL next_execution
\* is not true in SQL
get_due_items(rows, t) ==
    {row \in rows :
        /\ row.status = PENDING
        /\ \/ (row.next_execution # None /\ row.next_execution <= t)
           \/ (row.next_execution = None /\ row.scheduled_time <= t)}

----------------------------------------------------------------------------
(* ScheduledItem.update with keyword arguments *)

SpecialKeys == {"frequency", "status", "scheduled_time"}

\* kw is a record holding the keyword arguments that were passed
update(self, kw) ==
    LET s1 == IF "frequency" \in DOMAIN kw
              THEN [self EXCEPT !.frequency = kw.frequency] ELSE self
        s2 == IF "status" \in DOMAIN kw
              THEN [s1 EXCEPT !.status = kw.status] ELSE s1
        s3 == IF "scheduled_time" \in DOMAIN kw
              THEN [s2 EXCEPT !.scheduled_time = kw.scheduled_time,
                              !.next_execution = IF s2.status = PENDING
                                                 THEN kw.scheduled_time ELSE @]
              ELSE s2
    IN  [key \in DOMAIN s3 |->
            IF key \in DOMAIN kw \ SpecialKeys THEN kw[key] ELSE s3[key]]

\* the keyword arguments explored
KwStatus  == {[status |-> st] : st \in ScheduleStatus}
KwTime    == {[scheduled_time |-> t] : t \in UpdateTimes}
KwBoth    == {[status |-> st, scheduled_time |-> t] : st \in ScheduleStatus, t \in UpdateTimes}
KwBlog    == {[blog_post_id |-> b] : b \in BlogIds \cup {NoId}}
KwSocial  == {[social_post_id |-> so] : so \in SocialIds \cup {NoId}}

----------------------------------------------------------------------------
(* The state machine *)

\* the frequencies and limits given at construction: every frequency and
\* execution limit with one retry, and every retry limit without execution limit
Configs ==
    {[frequency |-> f, max_executions |-> me, max_retries |-> 1] :
        f \in ScheduleFrequency, me \in {None} \cup (0..MaxMaxExecutions)}
    \cup
    {[frequency |-> f, max_executions |-> None, max_retries |-> mr] :
        f \in {ONCE, DAILY}, mr \in 0..MaxMaxRetries}

\* the schedule runners, each with a database session of its own
Runners == {"r1", "r2"}

\* a runner whose session holds no row
Idle == [pc |-> "idle"]

\* a ScheduledItem constructed with the default status and saved at time 0
CreatedAt(anchors, configs, target_states) ==
    /\ now = 0
    /\ \E scheduled_time \in anchors, c \in configs,
          blog_post_id \in BlogIds \cup {NoId}, social_post_id \in SocialIds \cup {NoId} :
          /\ ~InitRaises(blog_post_id, social_post_id)
          /\ item = ScheduledItem(scheduled_time, blog_post_id, social_post_id,
                                  c.frequency, PENDING, c.max_executions, c.max_retries)
          /\ ~SaveRaises(item, now)
    /\ posts \in [PostIds -> target_states \cup {"draft"}]
    /\ \A id \in PostIds \ {item.blog_post_id, item.social_post_id} : posts[id] = "draft"
    /\ publish_calls = 0
    /\ last_op = "create"
    /\ result = "self"
    /\ outcome = "none"
    /\ runners = [r \in Runners |-> Idle]
    /\ saved = TRUE

Created(configs, target_states) == CreatedAt(Anchors, configs, target_states)

Init == Created(Configs, {"missing", "draft"})

\* the counters are explored up to one step past their limits
WithinCaps(self) ==
    /\ self.retry_count <= self.max_retries
    /\ self.execution_count <= (IF self.max_executions = None THEN MaxMaxExecutions
                                ELSE self.max_executions)

Tick ==
    /\ \E t \in Clock : t > now /\ now' = t
    /\ last_op' = "tick"
    /\ result' = "none"
    /\ outcome' = "none"
    /\ UNCHANGED <<item, posts, publish_calls, runners, saved>>

Execute ==
    /\ ExecuteSkips(item, now) \/ WithinCaps(item)
    /\ \E publish_ok \in BOOLEAN :
          LET r == execute(item, now, posts, publish_ok)
          IN  /\ item' = r.item
              /\ posts' = r.posts
              /\ publish_calls' = publish_calls + r.calls
              /\ result' = r.ret
              /\ outcome' = r.outcome
    /\ last_op' = "execute"
    /\ UNCHANGED <<now, runners, saved>>

MarkCompleted ==
    /\ WithinCaps(item)
    /\ item' = mark_completed(item, now)
    /\ last_op' = "mark_completed"
    /\ result' = "self"
    /\ outcome' = "none"
    /\ UNCHANGED <<now, posts, publish_calls, runners, saved>>

MarkFailed ==
    /\ WithinCaps(item)
    /\ \E error \in {NoMsg} :
          item' = mark_failed(item, error, now)
    /\ last_op' = "mark_failed"
    /\ result' = "self"
    /\ outcome' = "none"
    /\ UNCHANGED <<now, posts, publish_calls, runners, saved>>

Cancel ==
    /\ item' = cancel(item)
    /\ last_op' = "cancel"
    /\ result' = "self"
    /\ outcome' = "none"
    /\ UNCHANGED <<now, posts, publish_calls, runners, saved>>

Retry ==
    /\ IF can_retry(item)
       THEN item' = retry(item, now) /\ result' = "self"
       ELSE item' = item /\ result' = "raised"
    /\ last_op' = "retry"
    /\ outcome' = "none"
    /\ UNCHANGED <<now, posts, publish_calls, runners, saved>>

\* the rows of scheduled_items
Table == IF saved THEN {item} ELSE {}

GetDueItems ==
    /\ result' = IF item \in get_due_items(Table, now) THEN "due" ELSE "empty"
    /\ last_op' = "get_due_items"
    /\ outcome' = "none"
    /\ UNCHANGED <<item, now, posts, publish_calls, runners, saved>>

UpdateWith(kwargs) ==
    /\ \E kw \in kwargs : item' = update(item, kw)
    /\ last_op' = "update"
    /\ result' = "self"
    /\ outcome' = "none"
    /\ UNCHANGED <<now, posts, publish_calls, runners, saved>>

\* update of the status, of scheduled_time, or of both
Update == UpdateWith(KwStatus \cup KwTime \cup KwBoth)

\* update of a target reference
Retarget == UpdateWith(KwBlog \cup KwSocial)

\* the lifecycle operations
Next == Tick \/ Execute \/ MarkCompleted \/ MarkFailed \/ Cancel \/ Retry \/ GetDueItems

Spec == Init /\ [][Next]_vars

\* the lifecycle operations and update
NextUpdate == Next \/ Update

\* update is explored on one-shot and daily items with one retry and existing posts
InitUpdate ==
    Created({c \in Configs : c.max_retries = 1 /\ c.max_executions = None
                             /\ c.frequency \in {ONCE, DAILY}}, {"draft"})

SpecUpdate == InitUpdate /\ [][NextUpdate]_vars

\* the lifecycle operations and update of the target references
NextRetarget == Next \/ Retarget

SpecRetarget == InitUpdate /\ [][NextRetarget]_vars

\* scheduled_time values of the recurring items: a 31st in a common year, a 31st
\* in a leap year, a 30th in November (the months carry into the next year)
RecAnchors ==
    {MakeDatetime(2025, 1, 31, 720), MakeDatetime(2028, 1, 31, 720),
     MakeDatetime(2025, 11, 30, 480)}

\* the clock readings of the recurring items after creation: a day after the
\* February date of the first anchor, the minute of its May date, and a week
\* to the minute after the second anchor
RecClock ==
    {MakeDatetime(2025, 3, 1, 0), MakeDatetime(2025, 5, 31, 720),
     MakeDatetime(2028, 2, 7, 720)}

\* max_executions of the bounded recurring items
RecMaxExecutions == 5

\* a recurring item saved at time 0, with or without max_executions
InitRecurrence ==
    /\ now = 0
    /\ \E scheduled_time \in RecAnchors, frequency \in {DAILY, WEEKLY, MONTHLY},
          max_executions \in {None, RecMaxExecutions} :
          /\ item = ScheduledItem(scheduled_time, "b1", NoId, frequency, PENDING,
                                  max_executions, 1)
          /\ ~SaveRaises(item, now)
    /\ posts = [id \in PostIds |-> "draft"]
    /\ publish_calls = 0
    /\ last_op = "create"
    /\ result = "self"
    /\ outcome = "none"
    /\ runners = [r \in Runners |-> Idle]
    /\ saved = TRUE

TickRecurrence ==
    /\ \E t \in RecClock : t > now /\ now' = t
    /\ last_op' = "tick"
    /\ result' = "none"
    /\ outcome' = "none"
    /\ UNCHANGED <<item, posts, publish_calls, runners, saved>>

\* completions of recurring items, by execute() or by mark_completed(), at
\* clock readings before and long after the anchor
NextRecurrence == TickRecurrence \/ Execute \/ MarkCompleted

SpecRecurrence == InitRecurrence /\ [][NextRecurrence]_vars

\* the UPDATE a session sends at commit: the attributes of its object that
\* changed since it was loaded; the other columns of the row keep their values
commit(row, loaded, changed) ==
    [key \in DOMAIN row |-> IF changed[key] # loaded[key] THEN changed[key] ELSE row[key]]

\* a runner queries the due items and finds the item among them
Select(r) ==
    /\ runners[r].pc = "idle"
    /\ item \in get_due_items(Table, now)
    /\ runners' = [runners EXCEPT ![r] = [pc |-> "selected", loaded |-> item]]
    /\ last_op' = "get_due_items"
    /\ result' = "due"
    /\ outcome' = "none"
    /\ UNCHANGED <<item, now, posts, publish_calls, saved>>

\* a runner calls execute() on the object its query loaded
RunnerExecute(r) ==
    /\ runners[r].pc = "selected"
    /\ WithinCaps(runners[r].loaded)
    /\ \E publish_ok \in BOOLEAN :
          LET self == runners[r].loaded
              x == execute(self, now, posts, publish_ok)
          IN  /\ item' = commit(item, self, x.item)
              /\ posts' = x.posts
              /\ publish_calls' = publish_calls + x.calls
              /\ result' = x.ret
              /\ outcome' = x.outcome
    /\ runners' = [runners EXCEPT ![r] = Idle]
    /\ last_op' = "execute"
    /\ UNCHANGED <<now, saved>>

\* two runners doing select-then-execute over the same stored item
NextRunners ==
    \/ Tick
    \/ \E r \in Runners : Select(r)
    \/ \E r \in Runners : RunnerExecute(r)

InitRunners == Created({c \in Configs : c.max_retries = 1}, {"draft"})

SpecRunners == InitRunners /\ [][NextRunners]_vars

\* scheduled_time values given to the constructor: the creation time itself,
\* the next clock reading, and a time between the later readings
CreateTimes == {0, 10, 20}

\* no ScheduledItem object: none was constructed yet, or the constructor call
\* with these target references raised
NoObject(blog_post_id, social_post_id) ==
    [status |-> "none", blog_post_id |-> blog_post_id, social_post_id |-> social_post_id]

\* save(validate_references=True) looks the target up
ReferenceMissing(self, ps) ==
    \/ (self.blog_post_id # NoId /\ ps[self.blog_post_id] = "missing")
    \/ (self.social_post_id # NoId /\ ps[self.social_post_id] = "missing")

InitCreate ==
    /\ now = 0
    /\ item = NoObject(NoId, NoId)
    /\ posts \in [PostIds -> {"missing", "draft"}]
    /\ publish_calls = 0
    /\ last_op = "none"
    /\ result = "none"
    /\ outcome = "none"
    /\ runners = [r \in Runners |-> Idle]
    /\ saved = FALSE

\* a call of the constructor
Construct ==
    /\ item.status = "none"
    /\ \E scheduled_time \in CreateTimes, frequency \in ScheduleFrequency,
          blog_post_id \in BlogIds \cup {NoId}, social_post_id \in SocialIds \cup {NoId} :
          IF InitRaises(blog_post_id, social_post_id)
          THEN item' = NoObject(blog_post_id, social_post_id) /\ result' = "raised"
          ELSE /\ item' = ScheduledItem(scheduled_time, blog_post_id, social_post_id,
                                        frequency, PENDING, None, 1)
               /\ result' = "self"
    /\ last_op' = "construct"
    /\ outcome' = "none"
    /\ UNCHANGED <<now, posts, publish_calls, runners, saved>>

\* save() of the constructed object, with or without validation of the reference
Save ==
    /\ item.status # "none"
    /\ ~saved
    /\ \E validate_references \in BOOLEAN :
          LET raises == \/ SaveRaises(item, now)
                        \/ (validate_references /\ ReferenceMissing(item, posts))
          IN  /\ saved' = ~raises
              /\ result' = IF raises THEN "raised" ELSE "self"
    /\ last_op' = "save"
    /\ outcome' = "none"
    /\ UNCHANGED <<item, now, posts, publish_calls, runners>>

\* update(scheduled_time=...) of the saved item
Reschedule == saved /\ UpdateWith(KwTime)

\* construction, save and later change of scheduled_time
NextCreate == Tick \/ Construct \/ Save \/ Reschedule

SpecCreate == InitCreate /\ [][NextCreate]_vars

\* BlogPost.delete / SocialPost.delete: the post is gone
delete_post(ps, id) == [ps EXCEPT ![id] = "missing"]

\* a relationship without cascade: the schedules of a deleted post stay
schedules_uncascaded(self, id) == FALSE

\* the item is in post.schedules, the relationship with cascade "all,
\* delete-orphan": it is deleted with the post
schedules(self, id) ==
    \/ (id \in BlogIds /\ self.blog_post_id = id)
    \/ (id \in SocialIds /\ self.social_post_id = id)

DeletePost ==
    /\ \E id \in PostIds :
          /\ posts[id] # "missing"
          /\ posts' = delete_post(posts, id)
          /\ saved' = (saved /\ ~schedules(item, id))
    /\ last_op' = "delete_post"
    /\ result' = "True"
    /\ outcome' = "none"
    /\ UNCHANGED <<item, now, publish_calls, runners>>

\* ScheduledItem.get_by_id
GetById ==
    /\ result' = IF saved THEN "found" ELSE "None"
    /\ last_op' = "get_by_id"
    /\ outcome' = "none"
    /\ UNCHANGED <<item, now, posts, publish_calls, runners, saved>>

\* execute() of an item that has a row
Drive == saved /\ Execute

\* deletion of the posts among the operations on their schedules
NextDelete == Tick \/ Drive \/ GetDueItems \/ GetById \/ DeletePost

InitDelete == Created({c \in Configs : c.max_retries = 1}, {"draft"})

SpecDelete == InitDelete /\ [][NextDelete]_vars

\* scheduled_time values of the items a runner drives: minutes and a day
\* after creation
DrivenAnchors == {5, 1445}

\* an item driven after creation by execute(), cancel() and retry() only
NextDriven == Tick \/ Execute \/ Cancel \/ Retry

InitDriven == CreatedAt(DrivenAnchors, Configs, {"missing", "draft"})

SpecDriven == InitDriven /\ [][NextDriven]_vars

\* how long after the due time the runner reads the clock: at once, or more
\* than a day later
Lateness == {0, 2000}

\* time passes until the runner's next poll finds the pending item due
Advance ==
    /\ item.status = PENDING
    /\ now < execution_time(item)
    /\ \E late \in Lateness : now' = execution_time(item) + late
    /\ last_op' = "tick"
    /\ result' = "none"
    /\ outcome' = "none"
    /\ UNCHANGED <<item, posts, publish_calls, runners, saved>>

\* the runner executes an item that get_due_items() returned
RunDue == item \in get_due_items(Table, now) /\ Execute

\* the runner alone: poll, execute what is due, wait
NextFair == Advance \/ RunDue

InitFair == Created(Configs, {"missing", "draft"})

\* a fair runner: time keeps advancing and a due item is eventually executed;
\* nothing is assumed about the outcome of publish()
SpecFair == InitFair /\ [][NextFair]_vars /\ WF_vars(Advance) /\ WF_vars(RunDue)

\* the query and execute() side by side: execute() called on the stored item
\* straight away, and by a runner on the object an earlier query returned
NextAgree ==
    \/ Tick
    \/ GetDueItems
    \/ Execute
    \/ \E r \in Runners : Select(r)
    \/ \E r \in Runners : RunnerExecute(r)

\* scheduled_time values of the items queried: between two clock readings, and
\* on a clock reading
AgreeAnchors == {5, Mark.minute}

InitAgree == CreatedAt(AgreeAnchors, {c \in Configs : c.max_retries = 1}, {"missing", "draft"})

SpecAgree == InitAgree /\ [][NextAgree]_vars

----------------------------------------------------------------------------
(* Properties *)

Terminal == {COMPLETED, FAILED, CANCELLED}

\* the time from which an item may run: next_execution, or scheduled_time when it is null
DueTime(it) == IF it.next_execution = None THEN it.scheduled_time ELSE it.next_execution

\* the post an execution publishes: the blog post when set, else the social post
TargetOf(it) == IF it.blog_post_id # NoId THEN it.blog_post_id ELSE it.social_post_id

\* this step ran the completion path / the failure path
Completes == last_op' = "mark_completed" \/ (last_op' = "execute" /\ result' = "True")
Fails == last_op' = "mark_failed" \/ (last_op' = "execute" /\ outcome' \in {"not_found", "raised"})

\* this state was produced by the failure path
Failed == last_op = "mark_failed" \/ (last_op = "execute" /\ outcome \in {"not_found", "raised"})

\* C1: in every reachable state, next_execution is null if and only if the
\* status is COMPLETED, FAILED or CANCELLED
C1_NullIffTerminal ==
    (item.next_execution = None) <=> (item.status \in Terminal)

\* C2: in every reachable state exactly one of blog_post_id and social_post_id
\* is non-null
C2_ExactlyOneTarget ==
    (item.blog_post_id # NoId) <=> (item.social_post_id = NoId)

\* C3: no lifecycle operation changes the status of a COMPLETED or CANCELLED item
C3_TerminalStatusKept ==
    [][(item.status \in {COMPLETED, CANCELLED}
        /\ last_op' \in {"execute", "cancel", "retry", "mark_completed", "mark_failed"})
       => item'.status = item.status]_vars

\* C4: execute() on an item that is not PENDING or not yet due returns False,
\* calls no publish() and changes no field of the item or of the posts
C4_ExecuteNoOp ==
    [][(last_op' = "execute" /\ (item.status # PENDING \/ now < DueTime(item)))
       => /\ result' = "False"
          /\ item' = item
          /\ posts' = posts
          /\ publish_calls' = publish_calls]_vars

\* C4 witness: a never-failed PENDING item without next_execution was executed
\* before its scheduled_time
C4_Witness ==
    /\ last_op = "execute" /\ result = "False"
    /\ item.status = PENDING /\ item.retry_count = 0
    /\ item.next_execution = None /\ now < item.scheduled_time
    /\ publish_calls = 0

\* C5: execute() on a due PENDING item whose target exists and publishes, the
\* item being ONCE or reaching max_executions, returns True, publishes the
\* target, adds one to execution_count, and leaves COMPLETED with no next_execution
C5_ExecuteCompletes ==
    [][(/\ last_op' = "execute" /\ outcome' = "ok"
        /\ item.status = PENDING /\ now >= DueTime(item)
        /\ posts[TargetOf(item)] # "missing"
        /\ \/ item.frequency = ONCE
           \/ (item.max_executions # None /\ item.execution_count + 1 >= item.max_executions))
       => /\ result' = "True"
          /\ posts'[TargetOf(item)] = "published"
          /\ item'.execution_count = item.execution_count + 1
          /\ item'.status = COMPLETED
          /\ item'.next_execution = None]_vars

\* C5 witness: a DAILY item limited to two executions completed on its second execute
C5_Witness ==
    /\ last_op = "execute" /\ result = "True" /\ outcome = "ok"
    /\ item.frequency = DAILY /\ item.max_executions = 2 /\ item.execution_count = 2
    /\ item.status = COMPLETED /\ item.next_execution = None
    /\ posts[TargetOf(item)] = "published"

\* C6: a completion of a recurring item still below max_executions (or without
\* one) leaves PENDING, adds one to execution_count, stamps last_executed_at
\* with now and sets a non-null next_execution
C6_RecurringStaysPending ==
    [][(/\ Completes
        /\ item.frequency \in {DAILY, WEEKLY, MONTHLY}
        /\ (item.max_executions = None \/ item.execution_count + 1 < item.max_executions))
       => /\ item'.status = PENDING
          /\ item'.execution_count = item.execution_count + 1
          /\ item'.last_executed_at = now
          /\ item'.next_execution # None]_vars

\* C6 witness: a recurring item was executed successfully and is pending again
C6_Witness ==
    /\ last_op = "execute" /\ result = "True"
    /\ item.frequency \in {DAILY, WEEKLY, MONTHLY}
    /\ item.max_executions = 2 /\ item.execution_count = 1
    /\ item.status = PENDING /\ item.next_execution > now
    /\ item.last_executed_at = now

\* the delay after the k-th failure: 5, 15, 45, ... minutes
RECURSIVE C7_Delay(_)
C7_Delay(k) == IF k <= 1 THEN 5 ELSE 3 * C7_Delay(k - 1)

\* C7: a failure whose incremented retry_count k is below max_retries leaves
\* PENDING with next_execution = now + 5 * 3^(k-1) minutes
C7_FailureBackoff ==
    [][(Fails /\ item.retry_count + 1 < item.max_retries)
       => /\ item'.status = PENDING
          /\ item'.retry_count = item.retry_count + 1
          /\ item'.next_execution = now + C7_Delay(item.retry_count + 1)]_vars

\* C7 witness: the second failure of an item with three retries, 15 minutes of backoff
C7_Witness ==
    /\ Failed
    /\ item.max_retries = 3 /\ item.retry_count = 2 /\ item.last_error # NoMsg
    /\ item.last_executed_at = now
    /\ item.status = PENDING /\ item.next_execution = now + 15

\* C8: a failure whose incremented retry_count reaches max_retries leaves
\* FAILED with no next_execution and can_retry false; with max_retries = 3
\* that is the third failure, the first two leaving PENDING
C8_FailureExhausts ==
    [][Fails
       => /\ (item.retry_count + 1 >= item.max_retries)
               => /\ item'.status = FAILED
                  /\ item'.next_execution = None
                  /\ ~(item'.status \notin {COMPLETED, CANCELLED}
                        /\ item'.retry_count < item'.max_retries)
          /\ (item.max_retries = 3 /\ item'.retry_count \in {1, 2})
               => item'.status = PENDING
          /\ (item.max_retries = 3 /\ item'.status = FAILED)
               => item'.retry_count >= 3]_vars

\* C8 witness: the third failure of an item with three retries
C8_Witness ==
    /\ Failed
    /\ item.max_retries = 3 /\ item.retry_count = 3 /\ item.last_error # NoMsg
    /\ item.last_executed_at = now
    /\ item.status = FAILED /\ item.next_execution = None

\* C9: in every reachable state retry_count does not exceed max_retries
C9_RetryCountCapped == item.retry_count <= item.max_retries

\* C10: in every reachable state of an item with max_executions set,
\* execution_count does not exceed max_executions
C10_ExecutionCountCapped ==
    item.max_executions # None => item.execution_count <= item.max_executions

\* C11: a due execute() whose target is not found, or whose publish() raises,
\* returns False to the caller and runs the failure path once: retry_count + 1,
\* last_error the error message ("... not found" for a missing target); the
\* item is PENDING and retriable while retry_count < max_retries
C11_ExecuteSwallowsErrors ==
    [][(/\ last_op' = "execute"
        /\ item.status = PENDING /\ now >= DueTime(item)
        /\ (posts[TargetOf(item)] = "missing" \/ outcome' = "raised"))
       => /\ result' = "False"
          /\ item'.retry_count = item.retry_count + 1
          /\ item'.last_error =
                IF posts[TargetOf(item)] # "missing" THEN "publish failed"
                ELSE IF item.blog_post_id # NoId THEN "Blog post with ID b1 not found"
                ELSE "Social post with ID s1 not found"
          /\ (item'.retry_count < item'.max_retries)
                => (item'.status = PENDING /\ item'.next_execution # None)
          /\ (item'.retry_count >= item'.max_retries) => item'.status = FAILED]_vars

\* C11 witness: the publish() of an existing target raised on the second attempt
\* of an item with three retries, which is pending again
C11_Witness ==
    /\ last_op = "execute" /\ result = "False" /\ outcome = "raised"
    /\ item.retry_count = 2 /\ item.max_retries = 3
    /\ item.last_error = "publish failed"
    /\ item.status = PENDING /\ publish_calls >= 1

\* C12: every execute() calls publish() at most once, and returns True if and
\* only if that call succeeded and the completion path ran
C12_PublishOnceTrueIffPublished ==
    [][(last_op' = "execute")
       => /\ publish_calls' - publish_calls \in {0, 1}
          /\ (result' = "True")
               <=> (/\ publish_calls' = publish_calls + 1
                    /\ outcome' = "ok"
                    /\ item'.execution_count = item.execution_count + 1)]_vars

\* C13: with two or more runners doing select-then-execute on the same stored
\* item, a due occurrence is published once: every execute() that publishes
\* finds the stored item PENDING and due, as a single runner would
C13_OccurrencePublishedOnce ==
    [][(last_op' = "execute" /\ outcome' = "ok")
       => (item.status = PENDING /\ now >= DueTime(item))]_vars

\* C14: get_due_items() returns an item exactly when its status is PENDING and
\* either next_execution is non-null and <= now, or next_execution is null and
\* scheduled_time <= now; a COMPLETED, FAILED or CANCELLED item is not returned
C14_DueItemsExact ==
    (last_op = "get_due_items")
    => /\ (result = "due")
            <=> (/\ item.status = PENDING
                 /\ \/ (item.next_execution # None /\ item.next_execution <= now)
                    \/ (item.next_execution = None /\ item.scheduled_time <= now))
       /\ (item.status \in Terminal) => (result = "empty")

\* C14 witness: the query ran on a CANCELLED item whose scheduled_time is past
\* and whose next_execution is null, and did not return it
C14_Witness ==
    /\ last_op = "get_due_items" /\ result = "empty"
    /\ item.status = CANCELLED /\ item.next_execution = None
    /\ item.scheduled_time <= now

\* C15: once an item is FAILED with retry_count at max_retries, each later
\* get_due_items, execute and retry leaves it as it is: the query does not
\* return it, execute returns False without publishing, retry raises
C15_ExhaustedStaysExcluded ==
    [][(/\ item.status = FAILED /\ item.retry_count >= item.max_retries
        /\ last_op' \in {"get_due_items", "execute", "retry"})
       => /\ item' = item
          /\ posts' = posts
          /\ publish_calls' = publish_calls
          /\ last_op' = "get_due_items" => result' = "empty"
          /\ last_op' = "execute" => result' = "False"
          /\ last_op' = "retry" => result' = "raised"]_vars

\* C15 witness: retry() raised on an item that failed three times out of three
C15_Witness ==
    /\ last_op = "retry" /\ result = "raised"
    /\ item.status = FAILED /\ item.max_retries = 3 /\ item.retry_count = 3
    /\ item.next_execution = None

\* C16: retry() succeeds when the status is neither COMPLETED nor CANCELLED and
\* retry_count < max_retries; in any other state it raises and changes nothing
C16_RetryValidity ==
    [][(last_op' = "retry")
       => IF item.status \notin {COMPLETED, CANCELLED} /\ item.retry_count < item.max_retries
          THEN result' = "self"
          ELSE /\ result' = "raised"
               /\ item' = item
               /\ posts' = posts
               /\ publish_calls' = publish_calls]_vars

\* C16 witness: retry() raised on a CANCELLED item that still had retries left
C16_Witness ==
    /\ last_op = "retry" /\ result = "raised"
    /\ item.status = CANCELLED /\ item.retry_count < item.max_retries
    /\ item.next_execution = None

\* the delay of a retry at retry_count k: 5, 10, 20, ... minutes
RECURSIVE C17_Delay(_)
C17_Delay(k) == IF k <= 0 THEN 5 ELSE 2 * C17_Delay(k - 1)

\* C17: a retry() that does not raise sets PENDING and next_execution =
\* now + 5 * 2^retry_count minutes and changes no other field
C17_RetryBackoff ==
    [][(last_op' = "retry" /\ result' = "self")
       => /\ item'.status = PENDING
          /\ item'.next_execution = now + C17_Delay(item.retry_count)
          /\ item' = [item EXCEPT !.status = item'.status,
                                  !.next_execution = item'.next_execution]]_vars

\* C17 witness: a retry after two failures out of three, 20 minutes from now
C17_Witness ==
    /\ last_op = "retry" /\ result = "self"
    /\ item.max_retries = 3 /\ item.retry_count = 2
    /\ item.last_error # NoMsg
    /\ item.status = PENDING /\ item.next_execution = now + 20

\* the anchor moved n months on: same time of day, the anchor's day or the
\* last day of that month when the month is shorter
C18_Expected(anchor, n) ==
    LET a == DateOf(anchor)
        k == a.month + n - 1
        y == a.year + (k \div 12)
        m == (k % 12) + 1
        d == IF a.day <= DaysInMonth(y, m) THEN a.day ELSE DaysInMonth(y, m)
    IN  MakeDatetime(y, m, d, anchor % 1440)

\* the first of those dates, from n months on, that is after t
RECURSIVE C18_FirstAfter(_, _, _)
C18_FirstAfter(anchor, n, t) ==
    IF C18_Expected(anchor, n) > t THEN C18_Expected(anchor, n)
    ELSE C18_FirstAfter(anchor, n + 1, t)

\* the n-th completion of a MONTHLY item, with another occurrence to come
C18_MonthlyRecurs ==
    /\ Completes
    /\ item.frequency = MONTHLY
    /\ (item.max_executions = None \/ item.execution_count + 1 < item.max_executions)

\* with max_executions = 5 the 5th completion gives COMPLETED and no next_execution
C18_FifthCompletes ==
    (Completes /\ item.frequency = MONTHLY /\ item.max_executions = 5
        /\ item.execution_count = 4)
    => (item'.status = COMPLETED /\ item'.next_execution = None)

\* C18 as stated: the occurrence computed after the n-th completion of a
\* MONTHLY item lies in month anchor + n, at the anchor's time of day, on the
\* anchor's day clamped to the length of that month; with max_executions = 5
\* the 5th completion gives COMPLETED
C18_MonthlyInMonthN ==
    [][/\ C18_MonthlyRecurs
          => item'.next_execution =
                C18_Expected(item.scheduled_time, item.execution_count + 1)
       /\ C18_FifthCompletes]_vars

\* C18 amended: that date is the occurrence when it is after now; otherwise
\* the occurrence is the first such date of a later month that is after now.
\* An anchor on 2025-01-31T12:00 completed before each date yields Feb 28,
\* Mar 31, Apr 30 and May 31
C18_MonthlyClamped ==
    [][/\ C18_MonthlyRecurs
          => LET n == item.execution_count + 1
                 anchor == item.scheduled_time
             IN  /\ item'.next_execution = C18_FirstAfter(anchor, n, now)
                 /\ item'.next_execution > now
                 /\ (C18_Expected(anchor, n) > now)
                       => item'.next_execution = C18_Expected(anchor, n)
                 /\ (anchor = MakeDatetime(2025, 1, 31, 720) /\ n <= 4
                        /\ now < MakeDatetime(2025, 2, 28, 720))
                       => item'.next_execution =
                            <<MakeDatetime(2025, 2, 28, 720), MakeDatetime(2025, 3, 31, 720),
                              MakeDatetime(2025, 4, 30, 720), MakeDatetime(2025, 5, 31, 720)>>[n]
       /\ C18_FifthCompletes]_vars

\* C18 witness: the 4th completion of the item anchored on 2025-01-31T12:00,
\* after the 30th of April, set the 31st of May
C18_Witness ==
    /\ last_op \in {"mark_completed", "execute"}
    /\ item.frequency = MONTHLY /\ item.max_executions = 5
    /\ item.scheduled_time = MakeDatetime(2025, 1, 31, 720)
    /\ item.execution_count = 4 /\ item.status = PENDING
    /\ item.next_execution = MakeDatetime(2025, 5, 31, 720)
    /\ now < MakeDatetime(2025, 2, 28, 720)

\* C19: the occurrence computed after the n-th completion of a DAILY (WEEKLY)
\* item is anchor + n days (weeks) when that is after now, and otherwise
\* anchor + (whole days (weeks) elapsed since the anchor + 1) days (weeks),
\* the first occurrence on the anchor's grid that is after now
C19_DailyWeeklyGrid ==
    [][(/\ Completes
        /\ item.frequency \in {DAILY, WEEKLY}
        /\ (item.max_executions = None \/ item.execution_count + 1 < item.max_executions))
       => LET period == IF item.frequency = DAILY THEN 1440 ELSE 7 * 1440
              anchor == item.scheduled_time
              candidate == anchor + (item.execution_count + 1) * period
              elapsed == (now - anchor) \div period
          IN  /\ (candidate > now) => item'.next_execution = candidate
              /\ (candidate <= now)
                    => /\ item'.next_execution = anchor + (elapsed + 1) * period
                       /\ item'.next_execution > now
                       /\ item'.next_execution - period <= now]_vars

\* C19 witness: the first completion of a WEEKLY item one week to the minute
\* after its anchor set the occurrence two weeks after the anchor
C19_Witness ==
    /\ last_op \in {"mark_completed", "execute"}
    /\ item.frequency = WEEKLY /\ item.execution_count = 1 /\ item.status = PENDING
    /\ now = item.scheduled_time + 7 * 1440
    /\ item.last_executed_at = now
    /\ item.next_execution = item.scheduled_time + 14 * 1440

\* C20: the next_execution set by a completion that leaves a DAILY, WEEKLY or
\* MONTHLY item PENDING is strictly after the current time
C20_NextAfterNow ==
    [][(/\ Completes
        /\ item.frequency \in {DAILY, WEEKLY, MONTHLY}
        /\ item'.status = PENDING)
       => (item'.next_execution # None /\ item'.next_execution > now)]_vars

\* C20 witness: the first completion of a DAILY item anchored on
\* 2025-01-31T12:00, made on 2025-03-01T00:00, set noon of that day
C20_Witness ==
    /\ last_op \in {"mark_completed", "execute"}
    /\ item.frequency = DAILY /\ item.execution_count = 1 /\ item.status = PENDING
    /\ item.scheduled_time = MakeDatetime(2025, 1, 31, 720)
    /\ now = MakeDatetime(2025, 3, 1, 0)
    /\ item.last_executed_at = now
    /\ item.next_execution = MakeDatetime(2025, 3, 1, 720)

\* C21: a completion (mark_completed or a successful execute) leaves retry_count
\* and last_error as they are, so the failures add up over the lifetime: an item
\* that failed k < max_retries times becomes FAILED on the failure that brings
\* retry_count to max_retries, whatever completions came in between
C21_CompletionKeepsFailures ==
    [][/\ Completes
          => /\ item'.retry_count = item.retry_count
             /\ item'.last_error = item.last_error
       /\ (Fails /\ item.retry_count < item.max_retries)
          => /\ item'.retry_count = item.retry_count + 1
             /\ (item'.status = FAILED) <=> (item.retry_count + 1 = item.max_retries)]_vars

\* C21 witness: a DAILY item with two retries that failed once has been executed
\* successfully and still counts that failure
C21_Witness ==
    /\ last_op = "execute" /\ result = "True" /\ outcome = "ok"
    /\ item.frequency = DAILY /\ item.max_retries = 2
    /\ item.retry_count = 1 /\ item.last_error # NoMsg
    /\ item.execution_count = 1 /\ item.status = PENDING

\* C22: no step of execute, mark_completed, mark_failed, cancel and retry
\* lowers execution_count or retry_count
C22_CountersNeverDecrease ==
    [][/\ item'.execution_count >= item.execution_count
       /\ item'.retry_count >= item.retry_count]_vars

\* C22 witness: a retry() of an item that has run once and failed once did not
\* lower either counter
C22_Witness ==
    /\ last_op = "retry" /\ result = "self"
    /\ item.execution_count = 1 /\ item.retry_count = 1
    /\ item.status = PENDING

\* C23: the error log is append-only with one entry per failure: a failure
\* appends one {time, message} entry after the earlier ones, no other lifecycle
\* operation changes the log, last_error is the message of the last entry, and
\* the log of an item created fresh has retry_count entries
C23_ErrorLogAppendOnly ==
    [][/\ IF Fails
          THEN item'.errors = Append(item.errors,
                                     [time |-> now, message |-> item'.last_error])
          ELSE item'.errors = item.errors
       /\ Len(item'.errors) = item'.retry_count
       /\ item'.errors # << >>
             => item'.errors[Len(item'.errors)].message = item'.last_error]_vars

\* C24: a constructor call with neither or with both of blog_post_id and
\* social_post_id raises and leaves no object and no row; a call with exactly
\* one returns an item whose other reference is null
C24_ConstructorTargets ==
    (last_op = "construct")
    => /\ (result = "raised")
            <=> ((item.blog_post_id = NoId) <=> (item.social_post_id = NoId))
       /\ (result = "raised") => (item.status = "none" /\ ~saved)
       /\ (result = "self")
            => /\ item.status = PENDING
               /\ (item.blog_post_id = NoId) # (item.social_post_id = NoId)

\* C24 witness: the constructor was called with both references and raised
C24_Witness ==
    /\ last_op = "construct" /\ result = "raised"
    /\ item.blog_post_id = "b1" /\ item.social_post_id = "s1"
    /\ item.status = "none" /\ ~saved

\* C25: save() of a new item whose scheduled_time is not after now raises and
\* stores nothing; with a later scheduled_time and an existing target it stores
\* the item; update() of scheduled_time is accepted whatever the new time
C25_FutureTimeAtCreationOnly ==
    [][/\ (last_op' = "save")
          => /\ (item.scheduled_time <= now) => (result' = "raised" /\ ~saved')
             /\ (item.scheduled_time > now /\ posts[TargetOf(item)] # "missing")
                   => (result' = "self" /\ saved')
             /\ (result' = "raised") => ~saved'
       /\ (last_op' = "update")
          => (result' = "self" /\ saved' /\ item'.scheduled_time \in UpdateTimes)]_vars

\* C25 witness: update() moved scheduled_time of a saved item into the past
C25_Witness ==
    /\ last_op = "update" /\ result = "self" /\ saved
    /\ item.scheduled_time < now

\* C26: cancel() on a PENDING item sets CANCELLED, clears next_execution and
\* leaves execution_count, retry_count and the error log unchanged; on an item
\* that is not PENDING it has no effect; a CANCELLED item is not returned by
\* get_due_items() and execute() does not publish its target
C26_CancelFromPendingOnly ==
    [][/\ (last_op' = "cancel")
          => IF item.status = PENDING
             THEN item' = [item EXCEPT !.status = CANCELLED, !.next_execution = None]
             ELSE item' = item
       /\ (item.status = CANCELLED /\ last_op' = "get_due_items") => result' = "empty"
       /\ (item.status = CANCELLED /\ last_op' = "execute")
          => (result' = "False" /\ publish_calls' = publish_calls /\ posts' = posts)]_vars

C28_PostDeletionCascades ==
    [][/\ \A id \in PostIds :
            (/\ last_op' = "delete_post"
             /\ posts[id] # "missing" /\ posts'[id] = "missing"
             /\ id \in {item.blog_post_id, item.social_post_id})
            => ~saved'
       /\ ~saved => ~saved'
       /\ (~saved /\ last_op' = "get_by_id") => result' = "None"
       /\ (~saved /\ last_op' = "get_due_items") => result' = "empty"]_vars

\* C28 witness: the query ran after the post of a due PENDING item was deleted
\* and returned nothing
C28_Witness ==
    /\ last_op = "get_due_items" /\ result = "empty"
    /\ ~saved /\ posts[TargetOf(item)] = "missing"
    /\ item.status = PENDING /\ item.next_execution # None /\ item.next_execution <= now

\* C29: for an item driven by execute(), cancel() and retry() only, publish()
\* is never called before the item's scheduled_time
C29_NoPublishBeforeAnchor ==
    [][(last_op' = "execute" /\ publish_calls' > publish_calls)
       => now >= item.scheduled_time]_vars

\* C30: for an item driven by execute(), cancel() and retry() only,
\* execution_count grows by one exactly with each successful publish() and
\* with nothing else, a ONCE item is published at most once and an item with
\* max_executions = m at most m times
C30_CountEqualsPublishes ==
    [][/\ (item'.execution_count = item.execution_count + 1)
            <=> (/\ last_op' = "execute" /\ outcome' = "ok"
                 /\ publish_calls' = publish_calls + 1
                 /\ posts'[TargetOf(item)] = "published")
       /\ item'.execution_count \in {item.execution_count, item.execution_count + 1}
       /\ (item.frequency = ONCE) => item'.execution_count <= 1
       /\ (item.frequency # ONCE /\ item.max_executions # None)
            => item'.execution_count <= item.max_executions]_vars

\* C31: under a fair runner an item that is ONCE or has a max_executions
\* eventually reaches COMPLETED, FAILED or CANCELLED, whatever publish() does
C31_BoundedItemTerminates ==
    (item.frequency = ONCE \/ item.max_executions # None) ~> (item.status \in Terminal)

\* C31 witness: a ONCE item whose publish() raised twice was published on the
\* third attempt and is COMPLETED
C31_Witness ==
    /\ last_op = "execute" /\ result = "True" /\ outcome = "ok"
    /\ item.frequency = ONCE /\ item.max_retries = 3 /\ item.retry_count = 2
    /\ item.execution_count = 1 /\ item.status = COMPLETED
    /\ publish_calls = 3

\* this execute() went past its guard: it looked the target up and ran the
\* completion or the failure path
C32_Attempted ==
    /\ outcome' \in {"not_found", "raised", "ok"}
    /\ item' # item
    /\ item'.last_executed_at = now

\* this execute() was the no-op: it returned False and changed nothing
C32_NoOp ==
    /\ result' = "False" /\ outcome' = "none"
    /\ item' = item /\ posts' = posts /\ publish_calls' = publish_calls

\* C32: get_due_items() and the guard of execute() agree: an execute() that
\* follows the query at the same clock reading, on the stored item, attempts
\* the publication when the query returned the item and is the no-op when it
\* did not, and an execute() at that or a later time on a returned item that
\* nothing changed in between attempts the publication
C32_QueryAgreesWithGuard ==
    [][/\ (last_op = "get_due_items" /\ last_op' = "execute" /\ runners' = runners)
            => /\ (result = "due") => C32_Attempted
               /\ (result = "empty") => C32_NoOp
       /\ \A r \in Runners :
            (/\ last_op' = "execute"
             /\ runners[r].pc = "selected" /\ runners'[r].pc = "idle"
             /\ runners[r].loaded = item)
            => C32_Attempted]_vars

\* C32 witness: the query returned a new item at its scheduled_time to the
\* minute, and the execute() that followed published its target
C32_Witness ==
    /\ last_op = "execute" /\ result = "True" /\ outcome = "ok"
    /\ \A r \in Runners : runners[r].pc = "idle"
    /\ now = item.scheduled_time /\ item.last_executed_at = now
    /\ item.execution_count = 1 /\ item.retry_count = 0
    /\ publish_calls = 1

\* C33: a successful execute() that leaves a recurring item PENDING sets a
\* next_execution greater than the one the item was due at, also when that one
\* came from a backoff or when occurrences were missed
C33_SuccessAdvancesNext ==
    [][(/\ last_op' = "execute" /\ result' = "True"
        /\ item.frequency \in {DAILY, WEEKLY, MONTHLY}
        /\ item'.status = PENDING)
       => /\ item.next_execution # None /\ item.next_execution <= now
          /\ item'.next_execution # None
          /\ item'.next_execution > item.next_execution]_vars

\* C33 witness: a DAILY item that failed once and was due at its backoff time
\* was published more than a day after its scheduled_time; the occurrence of
\* the second day after scheduled_time is next
C33_Witness ==
    /\ last_op = "execute" /\ result = "True" /\ outcome = "ok"
    /\ item.frequency = DAILY /\ item.status = PENDING
    /\ item.retry_count = 1 /\ item.execution_count = 1
    /\ now > item.scheduled_time + 1440
    /\ item.next_execution = item.scheduled_time + 2 * 1440

\* this step is an update() that was given a new scheduled_time
C34_TimeUpdate == last_op' = "update" /\ item'.scheduled_time # item.scheduled_time

\* C34: update(scheduled_time=t) sets next_execution to t exactly when the
\* status, after a status change of the same call, is PENDING, whatever
\* next_execution was; on a COMPLETED, FAILED or CANCELLED item it changes
\* scheduled_time only and leaves next_execution null
C34_RescheduleFrame ==
    [][C34_TimeUpdate
       => /\ IF item'.status = PENDING
             THEN item'.next_execution = item'.scheduled_time
             ELSE item'.next_execution = item.next_execution
          /\ item'.execution_count = item.execution_count
          /\ item'.retry_count = item.retry_count
          /\ (item.status \in Terminal /\ item'.status = item.status)
                => /\ item' = [item EXCEPT !.scheduled_time = item'.scheduled_time]
                   /\ item'.next_execution = None]_vars

====
